---- MODULE Spec2Model ----
(***************************************************************************)
(* arktree: the analysis pass of generateCmd.Run (src/main.go) over a vtxo *)
(* tree: numberOfNodes, sizeOfBranches, weightOfBranches,                  *)
(* computeBroadcastWeight, the mean/median helpers and the two frequency   *)
(* tables.                                                                 *)
(*                                                                         *)
(* The tree library (tree.TxGraph: Leaves, SubGraph, Apply, and            *)
(* tree.GetCosignerKeys) is an external dependency whose source is not in  *)
(* the repository; it is modelled from its contract (spec sections 4.1,    *)
(* 4.2 and 6).  Its failures and its enumeration orders are environment   *)
(* choices.                                                                *)
(*                                                                         *)
(* float64 is modelled bit-exactly on the range the analysis uses          *)
(* (0 and [2^-7, 2^12)): a value is a triple of 24-bit limbs <<h, m, l>>   *)
(* holding value * 2^60, and every operation rounds its exact result to    *)
(* 53 significant bits, ties to even, as IEEE 754 binary64 does.           *)
(***************************************************************************)
EXTENDS Integers, Sequences, FiniteSets, TLC

(* ------------------------------ bounds -------------------------------- *)

\* Largest number of nodes of a generated tree.
MaxNodes == 4
\* Longest chain (single-branch tree) whose nodes get independent cosigner counts.
MaxChain == 3
\* Largest number of cosigner keys on a node's first input.
MaxCosigners == 5
\* Longest sample and largest branch size drawn for the statistics helpers.
MaxSample == 3
MaxSize == 3
\* Largest cosigner count behind a weight drawn for the statistics helpers.
MaxStatCosigners == 3

(* ------------------------------ float64 ------------------------------- *)

Limb == 2^24
IntUnit == 2^12

RECURSIVE BitLen(_)
BitLen(n) == IF n = 0 THEN 0 ELSE 1 + BitLen(n \div 2)

\* Propagates limb overflow upwards.
Carry(x) ==
    LET c3 == x[3] \div Limb
        c2 == (x[2] + c3) \div Limb
    IN  <<x[1] + c2, (x[2] + c3) % Limb, x[3] % Limb>>

\* Rounds an exact value (plus a sticky flag for bits below 2^-60) to 53
\* significant bits, round-to-nearest, ties-to-even.
Round53(x, sticky) ==
    LET hb    == BitLen(x[1])
        shift == IF hb > 5 THEN hb - 5 ELSE 0
        u     == 2^shift
        rem   == x[3] % u
        half  == u \div 2
        odd   == (x[3] \div u) % 2 = 1
        up    == shift >= 1 /\ (rem > half \/ (rem = half /\ (sticky \/ odd)))
    IN  Carry(<<x[1], x[2], (x[3] - rem) + (IF up THEN u ELSE 0)>>)

FZero == <<0, 0, 0>>

\* float64(n) for a small non-negative int.
FromInt(n) == <<n * IntUnit, 0, 0>>

\* a + b
FAdd(a, b) == Round53(Carry(<<a[1] + b[1], a[2] + b[2], a[3] + b[3]>>), FALSE)

\* a * c, c an integer constant
FMulInt(a, c) == Round53(Carry(<<a[1] * c, a[2] * c, a[3] * c>>), FALSE)

\* a / c, c an integer-valued float64
FDivInt(a, c) ==
    LET qh == a[1] \div c
        r1 == a[1] % c
        qm == (r1 * Limb + a[2]) \div c
        r2 == (r1 * Limb + a[2]) % c
        ql == (r2 * Limb + a[3]) \div c
        r3 == (r2 * Limb + a[3]) % c
    IN  Round53(<<qh, qm, ql>>, r3 # 0)

\* int(a): truncation towards zero.
FTrunc(a) == a[1] \div IntUnit

\* a < b
FLess(a, b) ==
    \/ a[1] < b[1]
    \/ a[1] = b[1] /\ a[2] < b[2]
    \/ a[1] = b[1] /\ a[2] = b[2] /\ a[3] < b[3]

\* The digits fmt prints for %.1f (scale 10) and %.2f (scale 100): the exact
\* value times scale, rounded to the nearest integer, ties to even.
Fmt(a, scale) ==
    LET x    == Carry(<<a[1] * scale, a[2] * scale, a[3] * scale>>)
        ip   == x[1] \div IntUnit
        frac == <<x[1] % IntUnit, x[2], x[3]>>
        half == <<IntUnit \div 2, 0, 0>>
    IN  IF FLess(half, frac) \/ (frac = half /\ ip % 2 = 1) THEN ip + 1 ELSE ip

(* ------------------------------ helpers ------------------------------- *)

\* All enumerations of a finite set (the orders a Go map or the library may
\* produce its elements in).
Orders(S) ==
    {s \in [1..Cardinality(S) -> S] : \A i, j \in DOMAIN s : i # j => s[i] # s[j]}

Last(s) == s[Len(s)]

(* ------------------- tree library (external contract) ----------------- *)

\* A graph is [root, nodes, parent]; parent[root] = 0.
Children(g, n) == {c \in g.nodes : g.parent[c] = n}

\* g.Leaves(): the nodes without children.
LeavesOf(g) == {n \in g.nodes : Children(g, n) = {}}

RECURSIVE PathTo(_, _)
PathTo(parent, n) == IF n = 0 THEN {} ELSE {n} \cup PathTo(parent, parent[n])

\* g.SubGraph([leaf]): the leaf, the root and the nodes between them.
SubGraph(g, leaf) ==
    [root |-> g.root, nodes |-> PathTo(g.parent, leaf), parent |-> g.parent]

\* g.Apply(fn): the orders in which Apply may hand the nodes to fn: the
\* node itself first, then each child's subtree, the children in any order.
RECURSIVE Trav(_, _)
RECURSIVE TravChildren(_, _, _, _)
Trav(g, n) ==
    UNION {TravChildren(g, <<n>>, ord, 1) : ord \in Orders(Children(g, n))}
TravChildren(g, prefix, ord, i) ==
    IF i > Len(ord) THEN {prefix}
    ELSE UNION {TravChildren(g, prefix \o t, ord, i + 1) : t \in Trav(g, ord[i])}

Traversals(g) == Trav(g, g.root)

(* --------------------------- analysis functions ------------------------ *)

\* Mutant: the visitor counts the node and answers "stop".
CountVisitorStops(c) == [count |-> c + 1, cont |-> FALSE]

\* numberOfNodes' visitor: count++; return true, nil.
CountVisitor(c) == [count |-> c + 1, cont |-> TRUE]

\* numberOfNodes' visitor, applied along a traversal: count++ per node.
\* failAt > 0: the library's Apply itself reports a failure on reaching that
\* position of the traversal.
RECURSIVE CountVisits(_, _, _, _)
CountVisits(seq, i, cnt, failAt) ==
    IF i > Len(seq) THEN [kind |-> "ok", val |-> cnt, err |-> "nil"]
    ELSE IF i = failAt THEN [kind |-> "err", val |-> cnt, err |-> "ApplyError"]
    ELSE CountVisits(seq, i + 1, CountVisitor(cnt).count, failAt)

\* Mutant: the visitor answers "stop" after the first node.
numberOfNodesStopsAtEntry(seq, failAt) ==
    LET r == CountVisits(SubSeq(seq, 1, 1), 1, 0, failAt)
    IN  IF r.kind = "err" THEN [kind |-> "err", val |-> 0, err |-> r.err]
        ELSE [kind |-> "ok", val |-> r.val, err |-> "nil"]

numberOfNodes(seq, failAt) ==
    LET r == CountVisits(seq, 1, 0, failAt)
    IN  IF r.kind = "err" THEN [kind |-> "err", val |-> 0, err |-> r.err]
        ELSE [kind |-> "ok", val |-> r.val, err |-> "nil"]

\* Mutant: every node counts as a whole transaction, whatever its cosigners.
WeightVisitWholeTx(total, inp, k) ==
    IF inp = "noinputs" THEN [kind |-> "panic", val |-> total, err |-> "index out of range"]
    ELSE IF inp = "badkey" THEN [kind |-> "err", val |-> total, err |-> "CosignerKeysError"]
    ELSE [kind |-> "ok", val |-> FAdd(total, FromInt(1)), err |-> "nil"]

\* One call of computeBroadcastWeight's visitor on a node whose first input
\* is in state inp ("keys": k cosigner keys; "badkey": GetCosignerKeys
\* fails; "noinputs": Root.Inputs is empty, so Inputs[0] is out of range).
WeightVisit(total, inp, k) ==
    IF inp = "noinputs" THEN [kind |-> "panic", val |-> total, err |-> "index out of range"]
    ELSE IF inp = "badkey" THEN [kind |-> "err", val |-> total, err |-> "CosignerKeysError"]
    ELSE [kind |-> "ok", val |-> FAdd(total, FDivInt(FromInt(1), k)), err |-> "nil"]

RECURSIVE WeightVisits(_, _, _, _, _, _)
WeightVisits(seq, i, total, failAt, inputs, keys) ==
    IF i > Len(seq) THEN [kind |-> "ok", val |-> total, err |-> "nil"]
    ELSE IF i = failAt THEN [kind |-> "err", val |-> total, err |-> "ApplyError"]
    ELSE LET r == WeightVisit(total, inputs[seq[i]], keys[seq[i]])
         IN  IF r.kind = "ok"
             THEN WeightVisits(seq, i + 1, r.val, failAt, inputs, keys)
             ELSE r

computeBroadcastWeight(seq, failAt, inputs, keys) ==
    LET r == WeightVisits(seq, 1, FZero, failAt, inputs, keys)
    IN  IF r.kind = "err" THEN [kind |-> "err", val |-> FZero, err |-> r.err]
        ELSE r

(* ------------------------------ statistics ---------------------------- *)

Swap(s, j) == [s EXCEPT ![j] = s[j + 1], ![j + 1] = s[j]]

\* Mutant: the comparison of the inner loop reversed.
RECURSIVE InnerIntReversed(_, _, _)
InnerIntReversed(s, j, lim) ==
    IF j > lim THEN s
    ELSE InnerIntReversed(IF s[j] < s[j + 1] THEN Swap(s, j) ELSE s, j + 1, lim)

\* The bubble sort of calculateMedian and of the size table.
RECURSIVE InnerInt(_, _, _)
InnerInt(s, j, lim) ==
    IF j > lim THEN s
    ELSE InnerInt(IF s[j] > s[j + 1] THEN Swap(s, j) ELSE s, j + 1, lim)

\* Mutant: a single pass of the outer loop.
OuterIntOnePass(s, i) ==
    IF i >= Len(s) - 1 THEN s ELSE InnerInt(s, 1, Len(s) - i - 1)

RECURSIVE OuterInt(_, _)
OuterInt(s, i) ==
    IF i >= Len(s) - 1 THEN s
    ELSE OuterInt(InnerInt(s, 1, Len(s) - i - 1), i + 1)

BubbleSortInt(s) == OuterInt(s, 0)

\* The bubble sort of calculateMedianFloat and of the weight table.
RECURSIVE InnerFloat(_, _, _)
InnerFloat(s, j, lim) ==
    IF j > lim THEN s
    ELSE InnerFloat(IF FLess(s[j + 1], s[j]) THEN Swap(s, j) ELSE s, j + 1, lim)

RECURSIVE OuterFloat(_, _)
OuterFloat(s, i) ==
    IF i >= Len(s) - 1 THEN s
    ELSE OuterFloat(InnerFloat(s, 1, Len(s) - i - 1), i + 1)

BubbleSortFloat(s) == OuterFloat(s, 0)

RECURSIVE SumInt(_, _, _)
SumInt(values, i, sum) ==
    IF i > Len(values) THEN sum ELSE SumInt(values, i + 1, sum + values[i])

RECURSIVE SumFloat(_, _, _)
SumFloat(values, i, sum) ==
    IF i > Len(values) THEN sum ELSE SumFloat(values, i + 1, FAdd(sum, values[i]))

\* Mutant: the quotient taken in integers and converted afterwards.
calculateAverageIntDiv(values) ==
    IF Len(values) = 0 THEN FZero
    ELSE FromInt(SumInt(values, 1, 0) \div Len(values))

calculateAverage(values) ==
    IF Len(values) = 0 THEN FZero
    ELSE FDivInt(FromInt(SumInt(values, 1, 0)), Len(values))

calculateAverageFloat(values) ==
    IF Len(values) = 0 THEN FZero
    ELSE FDivInt(SumFloat(values, 1, FZero), Len(values))

\* Mutant: for an even length, the upper central element instead of the average.
calculateMedianUpper(values) ==
    IF Len(values) = 0 THEN [ret |-> FZero, values |-> values]
    ELSE LET sorted == BubbleSortInt(values)
             n      == Len(sorted)
         IN  [ret |-> FromInt(sorted[n \div 2 + 1]), values |-> values]

\* calculateMedian: ret is the result, values the caller's slice as the call
\* leaves it (the sort works on the copy `sorted`).
calculateMedian(values) ==
    IF Len(values) = 0 THEN [ret |-> FZero, values |-> values]
    ELSE LET sorted == BubbleSortInt(values)
             n      == Len(sorted)
         IN  [ret    |-> IF n % 2 = 0
                         THEN FDivInt(FromInt(sorted[n \div 2] + sorted[n \div 2 + 1]), 2)
                         ELSE FromInt(sorted[n \div 2 + 1]),
              values |-> values]

\* Mutant: sorted := values instead of a copy, so the sort reorders the
\* caller's slice.
calculateMedianFloatInPlace(values) ==
    IF Len(values) = 0 THEN [ret |-> FZero, values |-> values]
    ELSE LET sorted == BubbleSortFloat(values)
             n      == Len(sorted)
         IN  [ret    |-> IF n % 2 = 0
                         THEN FDivInt(FAdd(sorted[n \div 2], sorted[n \div 2 + 1]), 2)
                         ELSE sorted[n \div 2 + 1],
              values |-> sorted]

calculateMedianFloat(values) ==
    IF Len(values) = 0 THEN [ret |-> FZero, values |-> values]
    ELSE LET sorted == BubbleSortFloat(values)
             n      == Len(sorted)
         IN  [ret    |-> IF n % 2 = 0
                         THEN FDivInt(FAdd(sorted[n \div 2], sorted[n \div 2 + 1]), 2)
                         ELSE sorted[n \div 2 + 1],
              values |-> values]

\* biggestBranch / heaviestBranch loops.
RECURSIVE MaxInt(_, _, _)
MaxInt(values, i, best) ==
    IF i > Len(values) THEN best
    ELSE MaxInt(values, i + 1, IF values[i] > best THEN values[i] ELSE best)

RECURSIVE MaxFloat(_, _, _)
MaxFloat(values, i, best) ==
    IF i > Len(values) THEN best
    ELSE MaxFloat(values, i + 1, IF FLess(best, values[i]) THEN values[i] ELSE best)

\* Mutant: m[key] = 1 instead of m[key]++.
IncrOverwrite(m, key) ==
    IF key \in DOMAIN m THEN [m EXCEPT ![key] = 1] ELSE m @@ (key :> 1)

\* m[key]++ on a Go map (a missing key reads as 0).
Incr(m, key) ==
    IF key \in DOMAIN m THEN [m EXCEPT ![key] = @ + 1] ELSE m @@ (key :> 1)

EmptyMap == [k \in {} |-> 0]

\* sizeCount[size]++ for every branch size.
RECURSIVE GroupSizes(_, _, _)
GroupSizes(values, i, m) ==
    IF i > Len(values) THEN m ELSE GroupSizes(values, i + 1, Incr(m, values[i]))

\* float64(int(weight*100)) / 100
RoundedWeight(weight) == FDivInt(FromInt(FTrunc(FMulInt(weight, 100))), 100)

\* weightCount[roundedWeight]++ for every branch weight.
RECURSIVE GroupWeights(_, _, _)
GroupWeights(values, i, m) ==
    IF i > Len(values) THEN m
    ELSE GroupWeights(values, i + 1, Incr(m, RoundedWeight(values[i])))

(* -------------------------------- state ------------------------------- *)

VARIABLES
    pc,             \* position of generateCmd.Run
    tree,           \* txtree, as BuildVtxoTree returned it
    keys,           \* node -> number of cosigner keys of its first input
    inputs,         \* node -> "keys" | "badkey" | "noinputs"
    numLeaves,      \* the command's argument
    totalSize,
    leaves,         \* g.Leaves() of the running sizeOfBranches / weightOfBranches
    idx,            \* position of its loop over leaves
    acc,            \* its local branchSizes / branchWeights
    branchSizes,
    branchWeights,
    err,            \* the error Run received ("nil": none)
    calls,          \* the analysis functions Run has called, in order
    output,         \* the lines printed, in order
    avgSize,
    avgWeight,
    medianSize,
    medianWeight,
    sizeCount,
    sizes,
    weightCount,
    weights,
    stack,          \* Apply: the nodes reached and not yet handed to the visitor
    visited,        \* Apply: the nodes handed to the visitor, in order
    count           \* numberOfNodes' local count

vars == <<pc, tree, keys, inputs, numLeaves, totalSize, leaves, idx, acc,
          branchSizes, branchWeights, err, calls, output, avgSize, avgWeight,
          medianSize, medianWeight, sizeCount, sizes, weightCount, weights,
          stack, visited, count>>

treeVars == <<tree, keys, inputs, numLeaves>>
loopVars == <<leaves, idx, acc>>
statVars == <<avgSize, avgWeight, medianSize, medianWeight>>
tableVars == <<statVars, sizeCount, sizes, weightCount, weights>>
applyVars == <<stack, visited, count>>

\* Tree shapes with nodes 1..n, root 1, every other node below a smaller one.
Shapes(n) ==
    {par \in [1..n -> 0..n] :
        /\ par[1] = 0
        /\ \A i \in 2..n : par[i] >= 1 /\ par[i] < i}

IsChain(n, par) == \A i \in 2..n : par[i] = i - 1

InitLocals ==
    /\ totalSize = 0
    /\ leaves = <<>>
    /\ idx = 0
    /\ acc = <<>>
    /\ err = "nil"
    /\ output = <<>>
    /\ avgSize = FZero
    /\ avgWeight = FZero
    /\ medianSize = FZero
    /\ medianWeight = FZero
    /\ sizeCount = EmptyMap
    /\ sizes = <<>>
    /\ weightCount = EmptyMap
    /\ weights = <<>>
    /\ stack = <<>>
    /\ visited = <<>>
    /\ count = 0

\* Run, at "Calculating tree statistics": the tree is built.  At most one
\* node is malformed (no inputs, or cosigner keys that do not parse).
Init ==
    /\ pc = "total"
    /\ \E n \in 1..MaxNodes :
         \E par \in Shapes(n) :
           /\ tree = [root |-> 1, nodes |-> 1..n, parent |-> par]
           /\ numLeaves = Cardinality(LeavesOf(tree))
           /\ keys \in [1..n -> 1..MaxCosigners]
           /\ \/ \A i \in 1..n : keys[i] = keys[1]
              \/ IsChain(n, par) /\ n <= MaxChain
           /\ \/ inputs = [i \in 1..n |-> "keys"]
              \/ \E bad \in 1..n, kind \in {"badkey", "noinputs"} :
                   inputs = [i \in 1..n |-> IF i = bad THEN kind ELSE "keys"]
    /\ branchSizes = <<>>
    /\ branchWeights = <<>>
    /\ calls = <<>>
    /\ InitLocals

(* ------------------------ generateCmd.Run: analysis -------------------- *)

\* Mutant: the error is printed but os.Exit(1) is missing, so Run goes on
\* with the next step.
AfterErrorGoesOn(step) ==
    CASE step = "total size" -> "sizes"
      [] step = "size of branches" -> "weights"
      [] step = "weight of branches" -> "summary"

\* Where Run is after a failed analysis step: os.Exit(1).
AfterError(step) == "exit1"

\* Mutant: a failed call hands back what it has measured so far.
PartialSample(measured) == measured

\* What sizeOfBranches / weightOfBranches return beside an error: nil.
NilSample(measured) == <<>>

\* A failed step: Run prints the error and exits.
Fail(step, e) ==
    /\ pc' = AfterError(step)
    /\ err' = e
    /\ output' = Append(output, <<"error", step, e>>)

\* totalSize, err := numberOfNodes(txtree)
TotalSize ==
    /\ pc = "total"
    /\ calls' = Append(calls, "numberOfNodes")
    /\ \E seq \in Traversals(tree), failAt \in 0..Cardinality(tree.nodes) :
         LET r == numberOfNodes(seq, failAt)
         IN  IF r.kind = "ok"
             THEN /\ totalSize' = r.val
                  /\ pc' = "sizes"
                  /\ UNCHANGED <<err, output>>
             ELSE /\ totalSize' = r.val
                  /\ Fail("total size", r.err)
    /\ UNCHANGED <<treeVars, applyVars, loopVars, branchSizes, branchWeights, tableVars>>

\* sizeOfBranches: leaves := g.Leaves(); branchSizes := make(...)
SizesStart ==
    /\ pc = "sizes"
    /\ calls' = Append(calls, "sizeOfBranches")
    /\ \E ord \in Orders(LeavesOf(tree)) : leaves' = ord
    /\ idx' = 1
    /\ acc' = <<>>
    /\ pc' = "sizesLoop"
    /\ UNCHANGED <<treeVars, applyVars, totalSize, branchSizes, branchWeights, err, output, tableVars>>

\* sizeOfBranches: one iteration of the loop over the leaves.
SizesIter ==
    /\ pc = "sizesLoop"
    /\ idx <= Len(leaves)
    /\ \E subOk \in BOOLEAN :
         IF ~subOk
         THEN /\ Fail("size of branches", "SubGraphError")
              /\ branchSizes' = NilSample(acc)
              /\ UNCHANGED <<idx, acc>>
         ELSE \E seq \in Traversals(SubGraph(tree, leaves[idx])), failAt \in 0..Cardinality(tree.nodes) :
                LET r == numberOfNodes(seq, failAt)
                IN  IF r.kind = "ok"
                    THEN /\ acc' = Append(acc, r.val)
                         /\ idx' = idx + 1
                         /\ UNCHANGED <<pc, err, output, branchSizes>>
                    ELSE /\ Fail("size of branches", r.err)
                         /\ branchSizes' = NilSample(acc)
                         /\ UNCHANGED <<idx, acc>>
    /\ UNCHANGED <<treeVars, applyVars, totalSize, leaves, branchWeights, calls, tableVars>>

\* sizeOfBranches: return branchSizes, nil
SizesReturn ==
    /\ pc = "sizesLoop"
    /\ idx > Len(leaves)
    /\ branchSizes' = acc
    /\ pc' = "weights"
    /\ leaves' = <<>>
    /\ idx' = 0
    /\ acc' = <<>>
    /\ UNCHANGED <<treeVars, applyVars, totalSize, branchWeights, err, calls, output, tableVars>>

\* weightOfBranches: leaves := g.Leaves(); branchWeights := make(...)
WeightsStart ==
    /\ pc = "weights"
    /\ calls' = Append(calls, "weightOfBranches")
    /\ \E ord \in Orders(LeavesOf(tree)) : leaves' = ord
    /\ idx' = 1
    /\ acc' = <<>>
    /\ pc' = "weightsLoop"
    /\ UNCHANGED <<treeVars, applyVars, totalSize, branchSizes, branchWeights, err, output, tableVars>>

\* weightOfBranches: one iteration of the loop over the leaves.
WeightsIter ==
    /\ pc = "weightsLoop"
    /\ idx <= Len(leaves)
    /\ \E subOk \in BOOLEAN :
         IF ~subOk
         THEN /\ Fail("weight of branches", "SubGraphError")
              /\ branchWeights' = NilSample(acc)
              /\ UNCHANGED <<idx, acc>>
         ELSE \E seq \in Traversals(SubGraph(tree, leaves[idx])), failAt \in 0..Cardinality(tree.nodes) :
                LET r == computeBroadcastWeight(seq, failAt, inputs, keys)
                IN  CASE r.kind = "ok" ->
                           /\ acc' = Append(acc, r.val)
                           /\ idx' = idx + 1
                           /\ UNCHANGED <<pc, err, output, branchWeights>>
                      [] r.kind = "err" ->
                           /\ Fail("weight of branches", r.err)
                           /\ branchWeights' = NilSample(acc)
                           /\ UNCHANGED <<idx, acc>>
                      [] r.kind = "panic" ->
                           /\ pc' = "panic"
                           /\ err' = r.err
                           /\ UNCHANGED <<idx, acc, output, branchWeights>>
    /\ UNCHANGED <<treeVars, applyVars, totalSize, leaves, branchSizes, calls, tableVars>>

\* weightOfBranches: return branchWeights, nil
WeightsReturn ==
    /\ pc = "weightsLoop"
    /\ idx > Len(leaves)
    /\ branchWeights' = acc
    /\ pc' = "summary"
    /\ leaves' = <<>>
    /\ idx' = 0
    /\ acc' = <<>>
    /\ UNCHANGED <<treeVars, applyVars, totalSize, branchSizes, err, calls, output, tableVars>>

(* ------------------------ generateCmd.Run: report ---------------------- *)

\* The summary block: biggest and heaviest branch, totals, mean and median
\* of both samples (the latter only for a non-empty sample).
Summary ==
    /\ pc = "summary"
    /\ LET biggestBranch  == MaxInt(branchSizes, 1, 0)
           heaviestBranch == MaxFloat(branchWeights, 1, FZero)
           avgS == calculateAverage(branchSizes)
           medS == calculateMedian(branchSizes)
           avgW == calculateAverageFloat(branchWeights)
           medW == calculateMedianFloat(branchWeights)
       IN  /\ output' = output
                \o << <<"total", totalSize>>, <<"leaves", numLeaves>>,
                      <<"biggest", biggestBranch>> >>
                \o (IF Len(branchSizes) > 0
                    THEN << <<"avgSize", Fmt(avgS, 10)>>, <<"medianSize", Fmt(medS.ret, 10)>> >>
                    ELSE <<>>)
                \o << <<"heaviest", Fmt(heaviestBranch, 100)>> >>
                \o (IF Len(branchWeights) > 0
                    THEN << <<"avgWeight", Fmt(avgW, 100)>>, <<"medianWeight", Fmt(medW.ret, 100)>> >>
                    ELSE <<>>)
           /\ IF Len(branchSizes) > 0
              THEN /\ avgSize' = avgS
                   /\ medianSize' = medS.ret
                   /\ branchSizes' = medS.values
              ELSE UNCHANGED <<avgSize, medianSize, branchSizes>>
           /\ IF Len(branchWeights) > 0
              THEN /\ avgWeight' = avgW
                   /\ medianWeight' = medW.ret
                   /\ branchWeights' = medW.values
              ELSE UNCHANGED <<avgWeight, medianWeight, branchWeights>>
    /\ pc' = "groupSizes"
    /\ UNCHANGED <<treeVars, applyVars, totalSize, loopVars, err, calls, sizeCount, sizes,
                   weightCount, weights>>

\* Group branches by size.
GroupSz ==
    /\ pc = "groupSizes"
    /\ sizeCount' = GroupSizes(branchSizes, 1, EmptyMap)
    /\ pc' = "collectSizes"
    /\ UNCHANGED <<treeVars, applyVars, totalSize, loopVars, branchSizes, branchWeights, err,
                   calls, output, statVars, sizes, weightCount, weights>>

\* for size := range sizeCount { sizes = append(sizes, size) }: a Go map
\* yields its keys in any order.
CollectSz ==
    /\ pc = "collectSizes"
    /\ \E ord \in Orders(DOMAIN sizeCount) : sizes' = ord
    /\ pc' = "sortSizes"
    /\ UNCHANGED <<treeVars, applyVars, totalSize, loopVars, branchSizes, branchWeights, err,
                   calls, output, statVars, sizeCount, weightCount, weights>>

SortSz ==
    /\ pc = "sortSizes"
    /\ sizes' = BubbleSortInt(sizes)
    /\ pc' = "emitSizes"
    /\ UNCHANGED <<treeVars, applyVars, totalSize, loopVars, branchSizes, branchWeights, err,
                   calls, output, statVars, sizeCount, weightCount, weights>>

EmitSz ==
    /\ pc = "emitSizes"
    /\ output' = output \o [i \in 1..Len(sizes) |-> <<"sizeRow", sizeCount[sizes[i]], sizes[i]>>]
    /\ pc' = "groupWeights"
    /\ UNCHANGED <<treeVars, applyVars, totalSize, loopVars, branchSizes, branchWeights, err,
                   calls, statVars, sizeCount, sizes, weightCount, weights>>

\* Group branches by weight (rounded to 2 decimal places).
GroupWt ==
    /\ pc = "groupWeights"
    /\ weightCount' = GroupWeights(branchWeights, 1, EmptyMap)
    /\ pc' = "collectWeights"
    /\ UNCHANGED <<treeVars, applyVars, totalSize, loopVars, branchSizes, branchWeights, err,
                   calls, output, statVars, sizeCount, sizes, weights>>

CollectWt ==
    /\ pc = "collectWeights"
    /\ \E ord \in Orders(DOMAIN weightCount) : weights' = ord
    /\ pc' = "sortWeights"
    /\ UNCHANGED <<treeVars, applyVars, totalSize, loopVars, branchSizes, branchWeights, err,
                   calls, output, statVars, sizeCount, sizes, weightCount>>

SortWt ==
    /\ pc = "sortWeights"
    /\ weights' = BubbleSortFloat(weights)
    /\ pc' = "emitWeights"
    /\ UNCHANGED <<treeVars, applyVars, totalSize, loopVars, branchSizes, branchWeights, err,
                   calls, output, statVars, sizeCount, sizes, weightCount>>

\* The weight rows (the key printed with %.2f), then the closing banner.
EmitWt ==
    /\ pc = "emitWeights"
    /\ output' = output
         \o [i \in 1..Len(weights) |->
                <<"weightRow", weightCount[weights[i]], Fmt(weights[i], 100)>>]
         \o << <<"success", numLeaves>> >>
    /\ pc' = "done"
    /\ UNCHANGED <<treeVars, applyVars, totalSize, loopVars, branchSizes, branchWeights, err,
                   calls, statVars, sizeCount, sizes, weightCount, weights>>

Next ==
    \/ TotalSize
    \/ SizesStart
    \/ SizesIter
    \/ SizesReturn
    \/ WeightsStart
    \/ WeightsIter
    \/ WeightsReturn
    \/ Summary
    \/ GroupSz
    \/ CollectSz
    \/ SortSz
    \/ EmitSz
    \/ GroupWt
    \/ CollectWt
    \/ SortWt
    \/ EmitWt

Spec == Init /\ [][Next]_vars

(* ---------------- the statistics helpers on arbitrary samples ---------- *)

\* The weight of a branch of n nodes with k cosigners each.
UniformWeight(n, k) ==
    computeBroadcastWeight([i \in 1..n |-> i], 0, [i \in 1..n |-> "keys"],
                           [i \in 1..n |-> k]).val

\* The samples of branch sizes: every sequence within the bounds, and the
\* branch sizes of a tree with one branch of 2 and four branches of 4.
Samples ==
    UNION {[1..len -> 1..MaxSize] : len \in 0..MaxSample} \cup {<<2, 4, 4, 4, 4>>}

\* A sample of branch sizes in every arrival order, with the matching sample
\* of branch weights (every node of every branch with the same number of
\* cosigners).
InitStats ==
    /\ pc = "callStats"
    /\ tree = [root |-> 1, nodes |-> {1}, parent |-> <<0>>]
    /\ keys = <<1>>
    /\ inputs = <<"keys">>
    /\ calls = <<>>
    /\ \E s \in Samples, k \in 1..MaxStatCosigners :
         /\ numLeaves = Len(s)
         /\ branchSizes = s
         /\ branchWeights = [i \in 1..Len(s) |-> UniformWeight(s[i], k)]
    /\ InitLocals

\* The four helpers called on the samples.
CallStats ==
    /\ pc = "callStats"
    /\ avgSize' = calculateAverage(branchSizes)
    /\ avgWeight' = calculateAverageFloat(branchWeights)
    /\ medianSize' = calculateMedian(branchSizes).ret
    /\ branchSizes' = calculateMedian(branchSizes).values
    /\ medianWeight' = calculateMedianFloat(branchWeights).ret
    /\ branchWeights' = calculateMedianFloat(branchWeights).values
    /\ pc' = "groupSizes"
    /\ UNCHANGED <<treeVars, applyVars, totalSize, loopVars, err, calls, output, sizeCount,
                   sizes, weightCount, weights>>

NextStats ==
    \/ CallStats
    \/ GroupSz
    \/ CollectSz
    \/ SortSz
    \/ EmitSz
    \/ GroupWt
    \/ CollectWt
    \/ SortWt
    \/ EmitWt

SpecStats == InitStats /\ [][NextStats]_vars

(* --------------- numberOfNodes over Apply, one visit at a time --------- *)

\* Apply after its visitor answered for the node on top of the stack: on
\* "continue" the node's children are taken up, in the order ord, before
\* what was pending; on "stop" the traversal halts.
ApplyNext(pending, ord, cont) ==
    IF cont THEN ord \o Tail(pending) ELSE <<>>

\* numberOfNodes is called on a tree, on a branch of a tree, or on any node
\* of one of them (every node of a TxGraph is itself a TxGraph).
InitApply ==
    /\ pc = "callApply"
    /\ \E n \in 1..MaxNodes :
         \E par \in Shapes(n) :
           LET whole == [root |-> 1, nodes |-> 1..n, parent |-> par]
           IN  /\ \E g \in {whole} \cup {SubGraph(whole, l) : l \in LeavesOf(whole)} :
                     \E entry \in g.nodes : tree = [g EXCEPT !.root = entry]
               /\ numLeaves = Cardinality(LeavesOf(whole))
               /\ keys = [i \in 1..n |-> 1]
               /\ inputs = [i \in 1..n |-> "keys"]
    /\ branchSizes = <<>>
    /\ branchWeights = <<>>
    /\ calls = <<>>
    /\ InitLocals

\* count := 0; g.Apply(...)
ApplyStart ==
    /\ pc = "callApply"
    /\ count' = 0
    /\ stack' = <<tree.root>>
    /\ visited' = <<>>
    /\ calls' = Append(calls, "numberOfNodes")
    /\ pc' = "apply"
    /\ UNCHANGED <<treeVars, totalSize, loopVars, branchSizes, branchWeights, err,
                   output, tableVars>>

\* Apply hands the next node to the visitor, which counts it.
ApplyVisit ==
    /\ pc = "apply"
    /\ stack # <<>>
    /\ LET n == Head(stack)
           r == CountVisitor(count)
       IN  /\ count' = r.count
           /\ visited' = Append(visited, n)
           /\ \E ord \in Orders(Children(tree, n)) :
                 stack' = ApplyNext(stack, ord, r.cont)
    /\ UNCHANGED <<treeVars, pc, totalSize, loopVars, branchSizes, branchWeights,
                   err, calls, output, tableVars>>

\* Apply reports a failure of its own: return 0, err
ApplyFail ==
    /\ pc = "apply"
    /\ stack # <<>>
    /\ totalSize' = 0
    /\ err' = "ApplyError"
    /\ pc' = "applyFailed"
    /\ UNCHANGED <<treeVars, applyVars, loopVars, branchSizes, branchWeights,
                   calls, output, tableVars>>

\* Apply has returned nil: return count, nil
ApplyReturn ==
    /\ pc = "apply"
    /\ stack = <<>>
    /\ totalSize' = count
    /\ pc' = "applied"
    /\ UNCHANGED <<treeVars, applyVars, loopVars, branchSizes, branchWeights,
                   err, calls, output, tableVars>>

NextApply ==
    \/ ApplyStart
    \/ ApplyVisit
    \/ ApplyFail
    \/ ApplyReturn

\* The call runs on: a step that can be taken is taken.
SpecApply == InitApply /\ [][NextApply]_vars /\ WF_vars(NextApply)

(* ------------------------------- claims -------------------------------- *)

\* Number of nodes on the branch of node n, by the parent links.
RECURSIVE Depth(_)
Depth(n) == IF tree.parent[n] = 0 THEN 1 ELSE 1 + Depth(tree.parent[n])

\* The sum of 1/keys over the branch of node n, accumulated from the root down.
RECURSIVE PathWeight(_)
PathWeight(n) ==
    FAdd(IF tree.parent[n] = 0 THEN FZero ELSE PathWeight(tree.parent[n]),
         FDivInt(FromInt(1), keys[n]))

IsPowerOfTwo(k) == \E e \in 0..5 : k = 2^e

UniformBranch(n) == \A x \in PathTo(tree.parent, n) : keys[x] = keys[n]

\* The leaves whose branch weightOfBranches has measured so far.
Weighed == IF pc = "weightsLoop" THEN 1..Len(acc) ELSE {}

\* C1 as stated: a branch of n nodes with k cosigners each weighs n / k.
C1_UniformWeightIsQuotient ==
    \A i \in Weighed :
        UniformBranch(leaves[i])
            => acc[i] = FDivInt(FromInt(Depth(leaves[i])), keys[leaves[i]])

\* C1 amended: the weight of a branch is the float64 sum, accumulated in
\* visiting order, of the float64 quotients 1/k over its nodes, each node
\* once; with k a power of two on every node that is exactly n / k.
C1_WeightIsRoundedSum ==
    \A i \in Weighed :
        /\ acc[i] = PathWeight(leaves[i])
        /\ UniformBranch(leaves[i]) /\ IsPowerOfTwo(keys[leaves[i]])
             => acc[i] = FDivInt(FromInt(Depth(leaves[i])), keys[leaves[i]])

\* Three nodes with two cosigners each: 1.5.
C1_Witness ==
    /\ pc = "weightsLoop"
    /\ Len(acc) >= 1
    /\ Depth(leaves[1]) = 3
    /\ \A x \in tree.nodes : keys[x] = 2
    /\ Fmt(acc[1], 100) = 150

\* sizeOfBranches has returned its sample to Run.
SizesReturned == pc = "weights" \/ Len(calls) = 3

\* C2: sizeOfBranches collects one entry per leaf, in the order of the
\* enumeration, each the node count of that leaf's branch; the sample it
\* returns has L entries, each between 1 and the total node count.
C2_OneSizePerLeaf ==
    /\ pc = "sizesLoop" =>
         /\ Len(acc) = idx - 1
         /\ \A i \in 1..Len(acc) : acc[i] = Depth(leaves[i])
    /\ SizesReturned =>
         /\ totalSize = Cardinality(tree.nodes)
         /\ Len(branchSizes) = Cardinality(LeavesOf(tree))
         /\ \A i \in 1..Len(branchSizes) :
                branchSizes[i] >= 1 /\ branchSizes[i] <= totalSize

\* A tree with leaves at different depths, measured.
C2_Witness ==
    /\ pc = "weights"
    /\ Len(branchSizes) = 2
    /\ branchSizes[1] = 3
    /\ branchSizes[2] = 2
    /\ totalSize = 4

Malformed == {n \in tree.nodes : inputs[n] # "keys"}

\* weightOfBranches has come to the end of a branch holding a malformed node.
VisitedMalformed ==
    /\ pc \in {"exit1", "panic"}
    /\ Len(calls) = 3
    /\ err \notin {"SubGraphError", "ApplyError"}

\* C3 as stated: visiting a node without inputs, or whose cosigner keys
\* cannot be read, ends in an error returned to Run with no weight (never a
\* crash, never a number).
C3_InvalidNodeIsReturned ==
    /\ VisitedMalformed => pc = "exit1" /\ err = "CosignerKeysError" /\ branchWeights = <<>>
    /\ Malformed # {} => pc \notin {"summary", "done"}

\* The hundredths nearest to a weight.
NearestHundredth(w) == Fmt(w, 100)

\* C4 as stated: the key of a weight's group is the weight rounded to the
\* nearest hundredth, and two weights share a group exactly when these agree.
C4_KeyIsNearestHundredth ==
    pc \in {"collectWeights", "sortWeights", "emitWeights", "done"} =>
        /\ \A i \in 1..Len(branchWeights) :
               /\ RoundedWeight(branchWeights[i]) \in DOMAIN weightCount
               /\ Fmt(RoundedWeight(branchWeights[i]), 100)
                    = NearestHundredth(branchWeights[i])
        /\ \A i, j \in 1..Len(branchWeights) :
               (RoundedWeight(branchWeights[i]) = RoundedWeight(branchWeights[j]))
                 <=> (NearestHundredth(branchWeights[i]) = NearestHundredth(branchWeights[j]))

StatKinds == {"total", "leaves", "biggest", "avgSize", "medianSize", "heaviest",
              "avgWeight", "medianWeight", "sizeRow", "weightRow", "success"}

StatLines == {i \in 1..Len(output) : output[i][1] \in StatKinds}

AnalysisSteps == <<"numberOfNodes", "sizeOfBranches", "weightOfBranches">>

StepName(call) ==
    CASE call = "numberOfNodes" -> "total size"
      [] call = "sizeOfBranches" -> "size of branches"
      [] call = "weightOfBranches" -> "weight of branches"

\* C5: a failed analysis step is reported and ends the run: the only line
\* printed is that step's error, no later step is called, the run takes no
\* further step, and statistics lines appear only in runs whose three steps
\* all succeeded.
C5_FirstFailureStopsRun ==
    /\ calls = SubSeq(AnalysisSteps, 1, Len(calls))
    /\ err # "nil" => pc \in {"exit1", "panic"}
    /\ pc = "exit1" =>
         /\ err # "nil"
         /\ output = << <<"error", StepName(Last(calls)), err>> >>
         /\ ~ENABLED Next
    /\ StatLines # {} => err = "nil" /\ Len(calls) = 3 /\ StatLines = 1..Len(output)

\* sizeOfBranches failed: weightOfBranches is never called.
C5_Witness ==
    /\ pc = "exit1"
    /\ Last(calls) = "sizeOfBranches"
    /\ Len(output) = 1

Range(s) == {s[i] : i \in DOMAIN s}

FLessEq(a, b) == a = b \/ FLess(a, b)

\* The ascending arrangement of a sample, by rank: position i holds the value
\* with fewer than i smaller elements and at least i elements not above it.
RankedInt(s) ==
    [i \in 1..Len(s) |->
        CHOOSE v \in Range(s) :
            /\ Cardinality({j \in DOMAIN s : s[j] < v}) < i
            /\ Cardinality({j \in DOMAIN s : s[j] <= v}) >= i]

RankedFloat(s) ==
    [i \in 1..Len(s) |->
        CHOOSE v \in Range(s) :
            /\ Cardinality({j \in DOMAIN s : FLess(s[j], v)}) < i
            /\ Cardinality({j \in DOMAIN s : FLessEq(s[j], v)}) >= i]

\* m is the median of s: 0 for no element, the central element of the
\* ascending sample, or the value whose double is the sum of the two central ones.
IsMedianInt(m, s) ==
    LET n == Len(s)
        r == RankedInt(s)
    IN  CASE n = 0     -> m = FZero
          [] n % 2 = 1 -> m = FromInt(r[(n + 1) \div 2])
          [] OTHER     -> FAdd(m, m) = FromInt(r[n \div 2] + r[n \div 2 + 1])

IsMedianFloat(m, s) ==
    LET n == Len(s)
        r == RankedFloat(s)
    IN  CASE n = 0     -> m = FZero
          [] n % 2 = 1 -> m = r[(n + 1) \div 2]
          [] OTHER     -> FAdd(m, m) = FAdd(r[n \div 2], r[n \div 2 + 1])

StatsCalled == pc # "callStats"

\* C6: calculateMedian and calculateMedianFloat return the median of the
\* sample: 0 if empty, the central element of the ascending sample for an odd
\* length, the average of the two central elements for an even length.
C6_MedianIsCentral ==
    StatsCalled =>
        /\ IsMedianInt(medianSize, branchSizes)
        /\ IsMedianFloat(medianWeight, branchWeights)

Unsorted(s) == \E i, j \in DOMAIN s : i < j /\ s[j] < s[i]
UnsortedFloat(s) == \E i, j \in DOMAIN s : i < j /\ FLess(s[j], s[i])

\* An even-length sample out of order, with different central elements; its
\* median is a half.
C6_Witness ==
    /\ StatsCalled
    /\ Len(branchSizes) = 2
    /\ branchSizes[1] = 3
    /\ branchSizes[2] = 2
    /\ Fmt(medianSize, 10) = 25
    /\ UnsortedFloat(branchWeights)

\* C7: no step of the median or table computation changes the caller's
\* samples: same elements, same positions.
C7_SampleUnchanged ==
    [][branchSizes' = branchSizes /\ branchWeights' = branchWeights]_vars

\* Both tables done on samples that were handed over out of order.
C7_Witness ==
    /\ pc = "done"
    /\ Unsorted(branchSizes)
    /\ UnsortedFloat(branchWeights)

Reorderings(s) ==
    {[i \in 1..Len(s) |-> s[f[i]]] : f \in Orders(1..Len(s))}

\* C8: every reordering of the sample has the same median.
C8_MedianOrderInvariant ==
    pc = "groupSizes" =>
        /\ \A p \in Reorderings(branchSizes) : calculateMedian(p).ret = medianSize
        /\ \A p \in Reorderings(branchWeights) : calculateMedianFloat(p).ret = medianWeight

\* Three different sizes in descending order.
C8_Witness ==
    /\ pc = "groupSizes"
    /\ Len(branchSizes) = 3
    /\ branchSizes[1] > branchSizes[2]
    /\ branchSizes[2] > branchSizes[3]
    /\ medianSize = FromInt(branchSizes[2])

RECURSIVE SumCounts(_, _)
SumCounts(m, K) ==
    IF K = {} THEN 0
    ELSE LET k == CHOOSE x \in K : TRUE IN m[k] + SumCounts(m, K \ {k})

SizesGrouped == pc \notin {"callStats", "groupSizes"}
WeightsGrouped == pc \in {"collectWeights", "sortWeights", "emitWeights", "done"}

\* C9: in both tables the counts sum to the sample size, there is a group
\* for every key that occurs, and a group's count is the number of sample
\* elements with its key.
C9_CountsSumToSampleSize ==
    /\ SizesGrouped =>
         /\ DOMAIN sizeCount = Range(branchSizes)
         /\ \A k \in DOMAIN sizeCount :
                sizeCount[k] = Cardinality({i \in DOMAIN branchSizes : branchSizes[i] = k})
         /\ SumCounts(sizeCount, DOMAIN sizeCount) = Len(branchSizes)
    /\ WeightsGrouped =>
         /\ DOMAIN weightCount = {RoundedWeight(w) : w \in Range(branchWeights)}
         /\ \A k \in DOMAIN weightCount :
                weightCount[k] = Cardinality({i \in DOMAIN branchWeights :
                                                 RoundedWeight(branchWeights[i]) = k})
         /\ SumCounts(weightCount, DOMAIN weightCount) = Len(branchWeights)

\* Two groups in each table, one of them with two branches.
C9_Witness ==
    /\ pc = "done"
    /\ Cardinality(DOMAIN sizeCount) = 2
    /\ Cardinality(DOMAIN weightCount) = 2
    /\ \E k \in DOMAIN sizeCount : sizeCount[k] = 2
    /\ \E k \in DOMAIN weightCount : weightCount[k] = 2

\* The strictly ascending enumeration of a set of keys.
AscendingInt(K) == CHOOSE s \in Orders(K) : \A i, j \in DOMAIN s : i < j => s[i] < s[j]
AscendingFloat(K) == CHOOSE s \in Orders(K) : \A i, j \in DOMAIN s : i < j => FLess(s[i], s[j])

Occurrences(s, k) == Cardinality({i \in DOMAIN s : s[i] = k})

\* The table of a sample, from its elements alone.
SizeRows(s) ==
    LET ks == AscendingInt(Range(s))
    IN  [i \in 1..Len(ks) |-> <<"sizeRow", Occurrences(s, ks[i]), ks[i]>>]

WeightRows(s) ==
    LET rs == [i \in DOMAIN s |-> RoundedWeight(s[i])]
        ks == AscendingFloat(Range(rs))
    IN  [i \in 1..Len(ks) |-> <<"weightRow", Occurrences(rs, ks[i]), Fmt(ks[i], 100)>>]

SizesSorted == pc \in {"emitSizes", "groupWeights", "collectWeights", "sortWeights",
                       "emitWeights", "done"}

\* C10: each table lists every key once, in strictly ascending order, and
\* the rows printed depend on the elements of the sample alone: not on the
\* order they arrived in, nor on the order the map produced its keys in.
C10_TableDeterministic ==
    /\ SizesSorted => sizes = AscendingInt(DOMAIN sizeCount)
    /\ pc \in {"emitWeights", "done"} => weights = AscendingFloat(DOMAIN weightCount)
    /\ pc = "done" =>
         /\ output = SizeRows(branchSizes) \o WeightRows(branchWeights)
                       \o << <<"success", numLeaves>> >>
         /\ \A ord \in Orders(DOMAIN sizeCount) : BubbleSortInt(ord) = sizes
         /\ \A p \in Reorderings(branchSizes) : GroupSizes(p, 1, EmptyMap) = sizeCount
         /\ \A ord \in Orders(DOMAIN weightCount) : BubbleSortFloat(ord) = weights
         /\ \A p \in Reorderings(branchWeights) : GroupWeights(p, 1, EmptyMap) = weightCount

\* The shape of the example [2,4,4,4,4]: one branch of the smaller size
\* arriving last, the others equal; the table is [(2,1),(3,2)].
C10_Witness ==
    /\ pc = "done"
    /\ branchSizes = <<3, 3, 2>>
    /\ output[1] = <<"sizeRow", 1, 2>>
    /\ output[2] = <<"sizeRow", 2, 3>>

\* The nodes reachable from the entry of g: the entry and its descendants.
Reachable(g) == {n \in g.nodes : g.root \in PathTo(g.parent, n)}

NoRepeat(s) == \A i, j \in 1..Len(s) : i # j => s[i] # s[j]

\* In s every node but the entry comes after its parent.
ParentFirst(g, s) ==
    \A i \in 1..Len(s) :
        s[i] # g.root => \E j \in 1..(i - 1) : s[j] = g.parent[s[i]]

\* Apply, while it runs and once it has returned: no node was handed to
\* the visitor twice, none from outside the entry's reach, none before its
\* parent, and the count is the number of visits; on return no reachable
\* node is missing and numberOfNodes returns their number.
ApplyVisitsEachOnce ==
    /\ pc \in {"apply", "applied"} =>
         /\ NoRepeat(visited)
         /\ Range(visited) \subseteq Reachable(tree)
         /\ ParentFirst(tree, visited)
         /\ count = Len(visited)
    /\ pc = "applied" =>
         /\ Range(visited) = Reachable(tree)
         /\ visited \in Traversals(tree)
         /\ totalSize = Cardinality(Reachable(tree))
         /\ totalSize = numberOfNodes(visited, 0).val
         /\ err = "nil"

\* C11: a traversal from the entry hands every node reachable from it, the
\* entry included, to the visitor exactly once and a child only after its
\* parent; numberOfNodes then returns the number of reachable nodes; and
\* every call comes to its end.
C11_TraversalVisitsEachOnce ==
    /\ [](ApplyVisitsEachOnce)
    /\ <>(pc \in {"applied", "applyFailed"})

\* Entered below the root, at a node with two children: three of the four
\* nodes are reachable and counted.
C11_Witness ==
    /\ pc = "applied"
    /\ tree.root # 1
    /\ Cardinality(Children(tree, tree.root)) = 2
    /\ Cardinality(tree.nodes) = 4
    /\ totalSize = 3

\* The sum of an integer sample, by the number of times each value occurs.
RECURSIVE TotalOf(_, _)
TotalOf(s, k) ==
    IF k = 0 THEN 0 ELSE k * Occurrences(s, k) + TotalOf(s, k - 1)

\* The float64 sum of a sample, its elements added in their order.
RECURSIVE FloatTotal(_)
FloatTotal(s) ==
    IF s = <<>> THEN FZero
    ELSE FAdd(FloatTotal(SubSeq(s, 1, Len(s) - 1)), Last(s))

LibraryErrors == {"SubGraphError", "ApplyError", "CosignerKeysError"}

\* The loop over the leaves stands at a leaf, with one measurement for every
\* leaf before it and none for that leaf or a later one.
StoppedAtLeaf == idx \in 1..Len(leaves) /\ Len(acc) = idx - 1

\* Every way numberOfNodes and computeBroadcastWeight can fail on the branch
\* the loop stands at: the value beside the error is 0, the error is the
\* library's.
BranchCallsReturnZero ==
    pc \in {"sizesLoop", "weightsLoop"} /\ idx <= Len(leaves) =>
        \A seq \in Traversals(SubGraph(tree, leaves[idx])) : \A failAt \in 0..Len(seq) :
            LET n == numberOfNodes(seq, failAt)
                w == computeBroadcastWeight(seq, failAt, inputs, keys)
            IN  /\ n.kind = "err" => n.val = 0 /\ n.err = "ApplyError"
                /\ w.kind = "err" => w.val = FZero /\ w.err \in LibraryErrors
                /\ failAt > 0 => n.kind = "err" /\ w.kind # "ok"

\* C13: when the extraction or the traversal of a branch fails for a leaf,
\* sizeOfBranches / weightOfBranches stop at that leaf, return the library's
\* error as it is and nil instead of the measurements of the earlier leaves;
\* numberOfNodes and computeBroadcastWeight return 0 beside the error.
C13_FailureReturnsNilAndError ==
    /\ BranchCallsReturnZero
    /\ pc = "exit1" =>
         /\ err \in LibraryErrors
         /\ ~ENABLED Next
         /\ Last(calls) = "numberOfNodes" => totalSize = 0 /\ err = "ApplyError"
         /\ Last(calls) = "sizeOfBranches" =>
              /\ StoppedAtLeaf
              /\ branchSizes = <<>>
              /\ err \in {"SubGraphError", "ApplyError"}
         /\ Last(calls) = "weightOfBranches" =>
              /\ StoppedAtLeaf
              /\ branchWeights = <<>>
              /\ err = "CosignerKeysError" =>
                    Malformed \cap PathTo(tree.parent, leaves[idx]) # {}

\* weightOfBranches has measured two branches and fails at the third leaf,
\* whose cosigner keys cannot be read: an error and no sample.
C13_Witness ==
    /\ pc = "exit1"
    /\ Last(calls) = "weightOfBranches"
    /\ err = "CosignerKeysError"
    /\ idx = 3
    /\ Len(acc) = 2
    /\ branchWeights = <<>>

====
